---------------------------- MODULE Spec2Model ----------------------------
(***************************************************************************)
(* A model of src/models.py: the DeprecationItem record, its construction  *)
(* defaults (__post_init__), its hash (_compute_hash), its serialisation   *)
(* (to_dict, from_dict with the legacy replacement_model migration) and    *)
(* its equivalence test (matches_previous).                                *)
(*                                                                         *)
(* A Python str is modelled as a sequence of one-character strings, so     *)
(* that splitting, joining and hashing work on the characters.             *)
(***************************************************************************)
EXTENDS Integers, Sequences, FiniteSets, TLC

(***************************************************************************)
(* str.encode(): the UTF-8 bytes of a string.  The model's alphabet is     *)
(* ASCII (the tab and the printable characters), one byte per character.   *)
(* Code 96, the grave accent, cannot be written in a string literal here   *)
(* and is left out of the alphabet: its place in the table holds "".       *)
(***************************************************************************)
Printable ==
   <<
      " ", "!", "\"", "#", "$", "%", "&", "'", "(", ")", "*", "+",
      ",", "-", ".", "/", "0", "1", "2", "3", "4", "5", "6", "7",
      "8", "9", ":", ";", "<", "=", ">", "?", "@", "A", "B", "C",
      "D", "E", "F", "G", "H", "I", "J", "K", "L", "M", "N", "O",
      "P", "Q", "R", "S", "T", "U", "V", "W", "X", "Y", "Z", "[",
      "\\", "]", "^", "_", "", "a", "b", "c", "d", "e", "f", "g",
      "h", "i", "j", "k", "l", "m", "n", "o", "p", "q", "r", "s",
      "t", "u", "v", "w", "x", "y", "z", "{", "|", "}", "~"
   >>

Ord ==
   [c \in {Printable[i] : i \in 1..Len(Printable)} \cup {"\t"} |->
      IF c = "\t" THEN 9
      ELSE 31 + (CHOOSE i \in 1..Len(Printable) : Printable[i] = c)]

encode(s) == [i \in 1..Len(s) |-> Ord[s[i]]]

(***************************************************************************)
(* hashlib.sha256 (FIPS 180-4).  A 32-bit word is the pair <<hi, lo>> of   *)
(* its 16-bit halves, so that no intermediate value leaves the integers    *)
(* the model checker computes with.                                        *)
(***************************************************************************)
Pow2(n) == 2 ^ n

AndNibble ==
   [a \in 0..15 |-> [b \in 0..15 |->
      LET bit(x, i) == (x \div Pow2(i)) % 2
      IN  bit(a, 0) * bit(b, 0) + 2 * bit(a, 1) * bit(b, 1)
          + 4 * bit(a, 2) * bit(b, 2) + 8 * bit(a, 3) * bit(b, 3)]]

And16(x, y) ==
   AndNibble[x \div 4096][y \div 4096] * 4096
   + AndNibble[(x \div 256) % 16][(y \div 256) % 16] * 256
   + AndNibble[(x \div 16) % 16][(y \div 16) % 16] * 16
   + AndNibble[x % 16][y % 16]

Xor16(x, y) == x + y - 2 * And16(x, y)

Not16(x) == 65535 - x

WordXor(x, y) == <<Xor16(x[1], y[1]), Xor16(x[2], y[2])>>

WordAdd(x, y) ==
   LET lo == x[2] + y[2]
       hi == x[1] + y[1] + (lo \div 65536)
   IN  <<hi % 65536, lo % 65536>>

RECURSIVE RotR(_, _)
RotR(x, n) ==
   IF n = 0 THEN x
   ELSE IF n >= 16 THEN RotR(<<x[2], x[1]>>, n - 16)
   ELSE <<(x[1] \div Pow2(n)) + (x[2] % Pow2(n)) * Pow2(16 - n),
          (x[2] \div Pow2(n)) + (x[1] % Pow2(n)) * Pow2(16 - n)>>

ShR(x, n) ==
   IF n >= 16 THEN <<0, x[1] \div Pow2(n - 16)>>
   ELSE <<x[1] \div Pow2(n),
          (x[2] \div Pow2(n)) + (x[1] % Pow2(n)) * Pow2(16 - n)>>

\* Ch(e, f, g) = (e AND f) XOR (NOT e AND g); the two terms share no bit.
Ch(e, f, g) ==
   <<And16(e[1], f[1]) + And16(Not16(e[1]), g[1]),
     And16(e[2], f[2]) + And16(Not16(e[2]), g[2])>>

\* Maj(a, b, c) = (a AND b) XOR (a AND c) XOR (b AND c)
\*              = (a AND b) + (c AND (a XOR b)); the two terms share no bit.
Maj(a, b, c) ==
   <<And16(a[1], b[1]) + And16(c[1], Xor16(a[1], b[1])),
     And16(a[2], b[2]) + And16(c[2], Xor16(a[2], b[2]))>>

BigSigma0(x) == WordXor(WordXor(RotR(x, 2), RotR(x, 13)), RotR(x, 22))
BigSigma1(x) == WordXor(WordXor(RotR(x, 6), RotR(x, 11)), RotR(x, 25))
SmallSigma0(x) == WordXor(WordXor(RotR(x, 7), RotR(x, 18)), ShR(x, 3))
SmallSigma1(x) == WordXor(WordXor(RotR(x, 17), RotR(x, 19)), ShR(x, 10))

K ==
   <<
      <<17034, 12184>>, <<28983, 17553>>, <<46528, 64463>>, <<59829, 56229>>,
      <<14678, 49755>>, <<23025, 4593>>, <<37439, 33444>>, <<43804, 24277>>,
      <<55303, 43672>>, <<4739, 23297>>, <<9265, 34238>>, <<21772, 32195>>,
      <<29374, 23924>>, <<32990, 45566>>, <<39900, 1703>>, <<49563, 61812>>,
      <<58523, 27073>>, <<61374, 18310>>, <<4033, 40390>>, <<9228, 41420>>,
      <<11753, 11375>>, <<19060, 33962>>, <<23728, 43484>>, <<30457, 35034>>,
      <<38974, 20818>>, <<43057, 50797>>, <<45059, 10184>>, <<48985, 32711>>,
      <<50912, 3059>>, <<54695, 37191>>, <<1738, 25425>>, <<5161, 10599>>,
      <<10167, 2693>>, <<11803, 8504>>, <<19756, 28156>>, <<21304, 3347>>,
      <<25866, 29524>>, <<30314, 2747>>, <<33218, 51502>>, <<37490, 11397>>,
      <<41663, 59553>>, <<43034, 26187>>, <<49739, 35696>>, <<51052, 20899>>,
      <<53650, 59417>>, <<54937, 1572>>, <<62478, 13701>>, <<4202, 41072>>,
      <<6564, 49430>>, <<7735, 27656>>, <<10056, 30540>>, <<13488, 48309>>,
      <<14620, 3251>>, <<20184, 43594>>, <<23452, 51791>>, <<26670, 28659>>,
      <<29839, 33518>>, <<30885, 25455>>, <<33992, 30740>>, <<36039, 520>>,
      <<37054, 65530>>, <<42064, 27883>>, <<48889, 41975>>, <<50801, 30962>>
   >>

H0 ==
   <<
      <<27145, 58983>>, <<47975, 44677>>, <<15470, 62322>>, <<42319, 62778>>,
      <<20750, 21119>>, <<39685, 26764>>, <<8067, 55723>>, <<23520, 52505>>
   >>

\* The message followed by the byte 0x80, zero bytes up to 56 modulo 64, and
\* the message's length in bits as eight big-endian bytes.
Pad(bytes) ==
   LET n     == Len(bytes)
       zeros == (119 - (n % 64)) % 64
       bits  == 8 * n
   IN  bytes \o <<128>> \o [i \in 1..zeros |-> 0]
       \o <<0, 0, 0, 0, (bits \div 16777216) % 256, (bits \div 65536) % 256,
            (bits \div 256) % 256, bits % 256>>

RECURSIVE Schedule(_)
Schedule(w) ==
   IF Len(w) = 64 THEN w
   ELSE LET t == Len(w) + 1
        IN  Schedule(Append(w,
               WordAdd(WordAdd(WordAdd(w[t - 16], SmallSigma0(w[t - 15])),
                               w[t - 7]),
                       SmallSigma1(w[t - 2]))))

\* One round of the compression function on the working variables a..h.
Round(v, w, t) ==
   LET temp1 == WordAdd(WordAdd(WordAdd(WordAdd(v[8], BigSigma1(v[5])),
                                        Ch(v[5], v[6], v[7])),
                                K[t]),
                        w[t])
       temp2 == WordAdd(BigSigma0(v[1]), Maj(v[1], v[2], v[3]))
   IN  <<WordAdd(temp1, temp2), v[1], v[2], v[3],
         WordAdd(v[4], temp1), v[5], v[6], v[7]>>

\* The 64 rounds.  The test on Len(next) is always true: it makes the
\* evaluation compute each round before it starts the following one.
RECURSIVE Rounds(_, _, _)
Rounds(v, w, t) ==
   IF t > 64 THEN v
   ELSE LET next == Round(v, w, t)
        IN  IF Len(next) = 8 THEN Rounds(next, w, t + 1) ELSE next

Compress(h, block) ==
   LET w16 == [i \in 1..16 |->
                 <<block[4 * i - 3] * 256 + block[4 * i - 2],
                   block[4 * i - 1] * 256 + block[4 * i]>>]
       v   == Rounds(h, Schedule(w16), 1)
   IN  [i \in 1..8 |-> WordAdd(h[i], v[i])]

RECURSIVE Blocks(_, _)
Blocks(h, bytes) ==
   IF Len(bytes) = 0 THEN h
   ELSE Blocks(Compress(h, SubSeq(bytes, 1, 64)),
               SubSeq(bytes, 65, Len(bytes)))

sha256(bytes) == Blocks(H0, Pad(bytes))

HexDigits ==
   <<"0", "1", "2", "3", "4", "5", "6", "7",
     "8", "9", "a", "b", "c", "d", "e", "f">>

Hex16(x) ==
   <<HexDigits[(x \div 4096) + 1], HexDigits[((x \div 256) % 16) + 1],
     HexDigits[((x \div 16) % 16) + 1], HexDigits[(x % 16) + 1]>>

RECURSIVE hexdigest(_)
hexdigest(words) ==
   IF Len(words) = 0 THEN <<>>
   ELSE Hex16(words[1][1]) \o Hex16(words[1][2]) \o hexdigest(Tail(words))

(***************************************************************************)
(* Bounds of the model.                                                    *)
(***************************************************************************)
\* The clock runs from 0 to MaxClock seconds.
MaxClock == 1

\* The longest legacy replacement_model string from_dict is given.
MaxLegacyLen == 4

(***************************************************************************)
(* Python values.  The values a dict holds and the replacement_models      *)
(* field are dynamically typed: each carries its type.  The str fields of  *)
(* an item are plain character sequences.                                  *)
(***************************************************************************)
PyNone == [t |-> "None"]
PyStr(s) == [t |-> "str", v |-> s]
PyInt(n) == [t |-> "int", v |-> n]
PyList(l) == [t |-> "list", v |-> l]

\* bool(x): None, "", 0 and [] are false.
Truthy(x) ==
   CASE x.t = "None" -> FALSE
     [] x.t = "str"  -> Len(x.v) > 0
     [] x.t = "int"  -> x.v # 0
     [] x.t = "list" -> Len(x.v) > 0

\* sub in s, for strings.
Contains(s, sub) ==
   \E i \in 1..(Len(s) - Len(sub) + 1) : SubSeq(s, i, i + Len(sub) - 1) = sub

\* s.split(sep): the parts of s between the occurrences of sep, found from
\* the left, the empty parts included.
RECURSIVE split(_, _)
split(s, sep) ==
   IF ~Contains(s, sep) THEN <<s>>
   ELSE LET i == CHOOSE k \in 1..(Len(s) - Len(sep) + 1) :
                    /\ SubSeq(s, k, k + Len(sep) - 1) = sep
                    /\ \A j \in 1..(k - 1) : SubSeq(s, j, j + Len(sep) - 1) # sep
        IN  <<SubSeq(s, 1, i - 1)>> \o split(SubSeq(s, i + Len(sep), Len(s)), sep)

\* dict.get(key, default) and dict.get(key).
Get(data, key, default) == IF key \in DOMAIN data THEN data[key] ELSE default

(***************************************************************************)
(* datetime.now(timezone.utc).isoformat().  The clock counts whole seconds *)
(* from 2025-01-01T00:00:00 UTC and stays within the first minute.         *)
(***************************************************************************)
isoformat(now) ==
   <<"2", "0", "2", "5", "-", "0", "1", "-", "0", "1", "T",
     "0", "0", ":", "0", "0", ":">>
   \o <<HexDigits[(now \div 10) + 1], HexDigits[(now % 10) + 1]>>
   \o <<"+", "0", "0", ":", "0", "0">>

(***************************************************************************)
(* _compute_hash.  The digests of the strings the model hashes are         *)
(* computed once, in Digests; any other string is hashed when asked for.   *)
(***************************************************************************)
Providers == {<<"P">>, <<"Q">>}
ModelIds == {<<"m">>, <<"n">>}
ShutdownDates == {<<"s">>, <<"s", "|", "t">>}
AnnouncementDates == {<<"a">>, <<"t", "|", "a">>, <<"b">>}

Joined(p, m, s, a) == p \o <<"|">> \o m \o <<"|">> \o s \o <<"|">> \o a

HashedKeys == {"provider", "model_id", "shutdown_date", "announcement_date"}

\* The strings hashed: the four fields all given, and any of them missing
\* from a dict whose other fields are "P", "m", "s" and "a".
HashedContents ==
   {Joined(p, m, s, a) : p \in Providers, m \in ModelIds,
                         s \in ShutdownDates, a \in AnnouncementDates}
   \cup {Joined(IF "provider" \in ks THEN <<"P">> ELSE <<>>,
                IF "model_id" \in ks THEN <<"m">> ELSE <<>>,
                IF "shutdown_date" \in ks THEN <<"s">> ELSE <<>>,
                IF "announcement_date" \in ks THEN <<"a">> ELSE <<>>) :
            ks \in SUBSET HashedKeys}
   \cup {<<"O", "p", "e", "n", "A", "I", "|",
           "g", "p", "t", "-", "4", "-", "3", "2", "k", "-", "0", "6", "1", "3", "|",
           "2", "0", "2", "5", "-", "0", "1", "-", "0", "1", "|",
           "2", "0", "2", "4", "-", "0", "1", "-", "0", "1">>}

Digests == [c \in HashedContents |-> hexdigest(sha256(encode(c)))]

sha256_hexdigest(content) ==
   IF content \in DOMAIN Digests THEN Digests[content]
   ELSE hexdigest(sha256(encode(content)))

\* A variant that keeps 8 characters.
compute_hash_8(content) == SubSeq(sha256_hexdigest(content), 1, 8)

_compute_hash(content) == SubSeq(sha256_hexdigest(content), 1, 16)

(***************************************************************************)
(* DeprecationItem.                                                        *)
(***************************************************************************)
\* A variant that hashes the dates in the order the fields are declared.
post_init_dates_swapped(self, now) ==
   LET stamped == IF Len(self.scraped_at) = 0
                  THEN [self EXCEPT !.scraped_at = isoformat(now)]
                  ELSE self
       unique_content == Joined(stamped.provider, stamped.model_id,
                                stamped.announcement_date, stamped.shutdown_date)
   IN  IF Len(stamped.content_hash) = 0
       THEN [stamped EXCEPT !.content_hash = _compute_hash(unique_content)]
       ELSE stamped

\* A variant that stamps every object, a given scraped_at or not.
post_init_always_stamped(self, now) ==
   LET stamped == [self EXCEPT !.scraped_at = isoformat(now)]
       unique_content == Joined(stamped.provider, stamped.model_id,
                                stamped.shutdown_date, stamped.announcement_date)
   IN  IF Len(stamped.content_hash) = 0
       THEN [stamped EXCEPT !.content_hash = _compute_hash(unique_content)]
       ELSE stamped

\* __post_init__, with the clock's reading at the time of the call.
__post_init__(self, now) ==
   LET stamped == IF Len(self.scraped_at) = 0
                  THEN [self EXCEPT !.scraped_at = isoformat(now)]
                  ELSE self
       unique_content == Joined(stamped.provider, stamped.model_id,
                                stamped.shutdown_date, stamped.announcement_date)
   IN  IF Len(stamped.content_hash) = 0
       THEN [stamped EXCEPT !.content_hash = _compute_hash(unique_content)]
       ELSE stamped

\* The constructor the dataclass generates: the fields as given, then
\* __post_init__.
DeprecationItem(args, now) ==
   __post_init__(
      [provider            |-> args.provider,
       model_id            |-> args.model_id,
       model_name          |-> args.model_name,
       announcement_date   |-> args.announcement_date,
       shutdown_date       |-> args.shutdown_date,
       replacement_models  |-> args.replacement_models,
       deprecation_context |-> args.deprecation_context,
       url                 |-> args.url,
       content_hash        |-> args.content_hash,
       scraped_at          |-> args.scraped_at], now)

\* A variant that leaves scraped_at out.
to_dict_without_scraped_at(self) ==
   [provider            |-> PyStr(self.provider),
    model_id            |-> PyStr(self.model_id),
    model_name          |-> PyStr(self.model_name),
    announcement_date   |-> PyStr(self.announcement_date),
    shutdown_date       |-> PyStr(self.shutdown_date),
    replacement_models  |-> self.replacement_models,
    deprecation_context |-> PyStr(self.deprecation_context),
    url                 |-> PyStr(self.url),
    content_hash        |-> PyStr(self.content_hash)]

to_dict(self) ==
   [provider            |-> PyStr(self.provider),
    model_id            |-> PyStr(self.model_id),
    model_name          |-> PyStr(self.model_name),
    announcement_date   |-> PyStr(self.announcement_date),
    shutdown_date       |-> PyStr(self.shutdown_date),
    replacement_models  |-> self.replacement_models,
    deprecation_context |-> PyStr(self.deprecation_context),
    url                 |-> PyStr(self.url),
    content_hash        |-> PyStr(self.content_hash),
    scraped_at          |-> PyStr(self.scraped_at)]

\* " " not in s
NoSpace_isspace(s) == \A i \in 1..Len(s) : s[i] \notin {" ", "\t"}

NoSpace(s) == \A i \in 1..Len(s) : s[i] # " "

NonEmpty(m) == Len(m) > 0

\* from_dict, the legacy replacement_model value made a replacement list.
\* The outcome is the value, or the exception the evaluation raises: "or" in
\* old_value raises TypeError when old_value is an int, and old_value.split
\* raises AttributeError when old_value is a list that holds "or".
legacy_models(old_value) ==
   LET parts == split(old_value.v, <<"o", "r">>)
       kept  == SelectSeq(parts, NonEmpty)
   IN  IF Truthy(old_value)
       THEN CASE old_value.t = "str" ->
                   IF /\ Contains(old_value.v, <<"o", "r">>)
                      /\ NoSpace(parts[1])
                      /\ NoSpace(parts[Len(parts)])
                   THEN [exc |-> "",
                         value |-> PyList([i \in 1..Len(kept) |-> PyStr(kept[i])])]
                   ELSE [exc |-> "", value |-> PyList(<<old_value>>)]
              [] old_value.t = "int" ->
                   [exc |-> "TypeError", value |-> PyNone]
              [] old_value.t = "list" ->
                   IF \E i \in 1..Len(old_value.v) :
                         old_value.v[i] = PyStr(<<"o", "r">>)
                   THEN [exc |-> "AttributeError", value |-> PyNone]
                   ELSE [exc |-> "", value |-> PyList(<<old_value>>)]
       ELSE [exc |-> "", value |-> PyNone]

\* A variant that takes the legacy value whenever the list is falsy.
replacement_models_if_falsy(data) ==
   LET replacement_models == Get(data, "replacement_models", PyNone)
   IN  IF ~Truthy(replacement_models) /\ "replacement_model" \in DOMAIN data
       THEN legacy_models(data["replacement_model"])
       ELSE [exc |-> "", value |-> replacement_models]

\* from_dict, the replacement list: the replacement_models key, or else the
\* legacy replacement_model key.
replacement_models_of(data) ==
   LET replacement_models == Get(data, "replacement_models", PyNone)
   IN  IF replacement_models.t = "None" /\ "replacement_model" \in DOMAIN data
       THEN legacy_models(data["replacement_model"])
       ELSE [exc |-> "", value |-> replacement_models]

\* from_dict: the exception raised, or the item returned (item holds it).
from_dict(data, now) ==
   LET migrated == replacement_models_of(data)
   IN  IF migrated.exc # "" THEN [exc |-> migrated.exc, item |-> <<>>]
       ELSE [exc  |-> "",
             item |-> <<DeprecationItem(
                [provider            |-> Get(data, "provider", PyStr(<<>>)).v,
                 model_id            |-> Get(data, "model_id", PyStr(<<>>)).v,
                 model_name          |-> Get(data, "model_name", PyStr(<<>>)).v,
                 announcement_date   |-> Get(data, "announcement_date", PyStr(<<>>)).v,
                 shutdown_date       |-> Get(data, "shutdown_date", PyStr(<<>>)).v,
                 replacement_models  |-> migrated.value,
                 deprecation_context |-> Get(data, "deprecation_context", PyStr(<<>>)).v,
                 url                 |-> Get(data, "url", PyStr(<<>>)).v,
                 content_hash        |-> Get(data, "content_hash", PyStr(<<>>)).v,
                 scraped_at          |-> Get(data, "scraped_at", PyStr(<<>>)).v],
                now)>>]

\* A variant that compares every field.
matches_previous_all_fields(self, other) == self = other

\* A variant that compares the provider and the model alone.
matches_previous_same_model(self, other) ==
   /\ self.provider = other.provider
   /\ self.model_id = other.model_id

matches_previous(self, other) ==
   /\ self.provider = other.provider
   /\ self.model_id = other.model_id
   /\ self.content_hash = other.content_hash

(***************************************************************************)
(* The state: the clock, two objects (self and other, each absent <<>> or  *)
(* present <<item>>), the dict to_dict last returned, the exception        *)
(* from_dict last raised ("" when it returned) and the value               *)
(* matches_previous last returned.  built records the call that was to     *)
(* make each object: the operation, its input and the clock's reading.     *)
(***************************************************************************)
VARIABLES clock, items, built, data, raised, result

vars == <<clock, items, built, data, raised, result>>

Slots == {"self", "other"}

Init ==
   /\ clock = 0
   /\ items = [s \in Slots |-> <<>>]
   /\ built = [s \in Slots |-> <<>>]
   /\ data = <<>>
   /\ raised = ""
   /\ result = <<>>

\* Time passes.
Tick ==
   /\ clock < MaxClock
   /\ clock' = clock + 1
   /\ UNCHANGED <<items, built, data, raised, result>>

\* slot = DeprecationItem(**args).  Each name is bound once, self before
\* other, and nothing runs after an exception.
Construct(slot, args) ==
   /\ built[slot] = <<>>
   /\ slot = "other" => items["self"] # <<>>
   /\ raised = ""
   /\ items' = [items EXCEPT ![slot] = <<DeprecationItem(args, clock)>>]
   /\ built' = [built EXCEPT ![slot] =
                   <<[op |-> "construct", input |-> args, now |-> clock]>>]
   /\ UNCHANGED <<clock, data, raised, result>>

\* slot = DeprecationItem.from_dict(d); an exception leaves slot unbound.
FromDict(slot, d) ==
   /\ built[slot] = <<>>
   /\ slot = "other" => items["self"] # <<>>
   /\ raised = ""
   /\ LET out == from_dict(d, clock)
      IN  /\ raised' = out.exc
          /\ items' = [items EXCEPT ![slot] = out.item]
          /\ built' = [built EXCEPT ![slot] =
                          <<[op |-> "from_dict", input |-> d, now |-> clock]>>]
   /\ UNCHANGED <<clock, data, result>>

\* data = slot.to_dict()
ToDict(slot) ==
   /\ items[slot] # <<>>
   /\ data = <<>>
   /\ data' = <<to_dict(items[slot][1])>>
   /\ UNCHANGED <<clock, items, built, raised, result>>

\* result = self.matches_previous(other)
MatchesPrevious ==
   /\ items["self"] # <<>>
   /\ items["other"] # <<>>
   /\ result = <<>>
   /\ result' = <<matches_previous(items["self"][1], items["other"][1])>>
   /\ UNCHANGED <<clock, items, built, data, raised>>

(***************************************************************************)
(* The inputs.                                                             *)
(***************************************************************************)
Name1 == <<"G", "P", "T">>
Name2 == <<"g", "p", "t">>
Url1 == <<"/", "d", "#", "1">>
Context1 == <<"e", "n", "d", "s">>
Stamp1 == <<"2", "0", "2", "4">>
GivenHash == <<"X">>
Models2 == PyList(<<PyStr(<<"x">>), PyStr(<<"y">>)>>)

\* What is not hashed: nothing given, or all of it given.
Plain ==
   [model_name |-> Name1, replacement_models |-> PyNone,
    deprecation_context |-> <<>>, url |-> <<>>, scraped_at |-> <<>>]

Described ==
   [model_name |-> Name2, replacement_models |-> Models2,
    deprecation_context |-> Context1, url |-> Url1, scraped_at |-> Stamp1]

\* The constructor's arguments: the hashed fields over their sets, the hash
\* given or not, and the rest as one of descriptions.
ArgsOver(descriptions) ==
   {[provider            |-> p,
     model_id            |-> m,
     model_name          |-> d.model_name,
     announcement_date   |-> a,
     shutdown_date       |-> s,
     replacement_models  |-> d.replacement_models,
     deprecation_context |-> d.deprecation_context,
     url                 |-> d.url,
     content_hash        |-> h,
     scraped_at          |-> d.scraped_at] :
       p \in Providers, m \in ModelIds, a \in AnnouncementDates,
       s \in ShutdownDates, d \in descriptions, h \in {<<>>, GivenHash}}

\* A constructor call for the model the source names as its example of a
\* model_id, gpt-4-32k-0613, with real dates.
OpenAI == <<"O", "p", "e", "n", "A", "I">>
Gpt432k == <<"g", "p", "t", "-", "4", "-", "3", "2", "k", "-", "0", "6", "1", "3">>
Date2024 == <<"2", "0", "2", "4", "-", "0", "1", "-", "0", "1">>
Date2025 == <<"2", "0", "2", "5", "-", "0", "1", "-", "0", "1">>

ExampleArgs ==
   [provider            |-> OpenAI,
    model_id            |-> Gpt432k,
    model_name          |-> <<"G", "P", "T", "-", "4", " ", "3", "2", "k">>,
    announcement_date   |-> Date2024,
    shutdown_date       |-> Date2025,
    replacement_models  |-> PyNone,
    deprecation_context |-> <<>>,
    url                 |-> <<>>,
    content_hash        |-> <<>>,
    scraped_at          |-> <<>>]

\* When two objects are compared: the earlier one plain, the later one
\* plain or described.
SelfArgs == ArgsOver({Plain}) \cup {ExampleArgs}
OtherArgs == ArgsOver({Plain, Described})

\* A dict with the keys of keys, each with one fixed value.
AllKeys ==
   {"provider", "model_id", "model_name", "announcement_date",
    "shutdown_date", "replacement_models", "deprecation_context", "url",
    "content_hash", "scraped_at", "replacement_model", "extra"}

DictValue(key) ==
   CASE key = "provider"            -> PyStr(<<"P">>)
     [] key = "model_id"            -> PyStr(<<"m">>)
     [] key = "model_name"          -> PyStr(Name1)
     [] key = "announcement_date"   -> PyStr(<<"a">>)
     [] key = "shutdown_date"       -> PyStr(<<"s">>)
     [] key = "replacement_models"  -> Models2
     [] key = "deprecation_context" -> PyStr(Context1)
     [] key = "url"                 -> PyStr(Url1)
     [] key = "content_hash"        -> PyStr(GivenHash)
     [] key = "scraped_at"          -> PyStr(Stamp1)
     [] key = "replacement_model"   -> PyStr(<<"x", "o", "r", "y">>)
     [] key = "extra"               -> PyInt(1)

DictOf(keys) == [k \in keys |-> DictValue(k)]

\* The dicts from_dict is given when two objects are compared: any of the
\* hashed keys missing, with and without a stored hash.
PairDicts ==
   {DictOf(ks \cup hs) : ks \in SUBSET HashedKeys,
                         hs \in {{}, {"content_hash"}}}
   \cup {[k \in HashedKeys \cup {"content_hash"} |->
            IF k = "content_hash" THEN PyStr(<<>>) ELSE DictValue(k)]}

\* Two objects, made at any two times, and compared.
Next ==
   \/ Tick
   \/ \E args \in SelfArgs : Construct("self", args)
   \/ \E args \in OtherArgs : Construct("other", args)
   \/ \E d \in PairDicts : FromDict("other", d)
   \/ MatchesPrevious

Spec == Init /\ [][Next]_vars

(***************************************************************************)
(* The round trip: one object made by the constructor, serialised, read    *)
(* back into other at the same or a later time, and compared.              *)
(***************************************************************************)
RoundTripArgs ==
   {[provider            |-> <<"P">>,
     model_id            |-> <<"m">>,
     model_name          |-> Name1,
     announcement_date   |-> a,
     shutdown_date       |-> <<"s">>,
     replacement_models  |-> r,
     deprecation_context |-> c,
     url                 |-> u,
     content_hash        |-> h,
     scraped_at          |-> t] :
       a \in {<<"a">>, <<"t", "|", "a">>},
       r \in {PyNone, PyList(<<>>), Models2},
       c \in {<<>>, Context1}, u \in {<<>>, Url1},
       h \in {<<>>, GivenHash}, t \in {<<>>, Stamp1}}

NextRoundTrip ==
   \/ Tick
   \/ \E args \in RoundTripArgs : Construct("self", args)
   \/ ToDict("self")
   \/ \E i \in DOMAIN data : FromDict("other", data[i])
   \/ MatchesPrevious

SpecRoundTrip == Init /\ [][NextRoundTrip]_vars

(***************************************************************************)
(* The migration: from_dict on one dict.  The dicts are: every set of the  *)
(* known keys, the legacy key and an unknown key; every legacy string over *)
(* a small alphabet up to MaxLegacyLen characters and the two strings the  *)
(* source and its data name, alone or beside a replacement_models key; and *)
(* legacy values that are not strings.                                     *)
(***************************************************************************)
LegacyAlphabet == {"o", "r", " ", "\t", "a"}

ExampleLegacy ==
   {<<"g", "p", "t", "-", "i", "m", "a", "g", "e", "-", "1", "o", "r",
      "g", "p", "t", "-", "i", "m", "a", "g", "e", "-", "1", "-", "m", "i", "n", "i">>,
    <<"g", "p", "t", "-", "4", "-", "t", "u", "r", "b", "o">>}

LegacyStrings ==
   UNION {[1..n -> LegacyAlphabet] : n \in 0..MaxLegacyLen} \cup ExampleLegacy

NewStyleValues == {PyNone, PyList(<<>>), Models2}

NonStrings ==
   {PyInt(0), PyInt(5), PyList(<<>>), PyList(<<PyStr(<<"a">>)>>),
    PyList(<<PyStr(<<"o", "r">>)>>)}

MigrateDicts ==
   {DictOf(ks) : ks \in SUBSET AllKeys}
   \cup {[replacement_model |-> PyStr(v)] : v \in LegacyStrings}
   \cup {[replacement_model |-> PyStr(v), replacement_models |-> n] :
            v \in LegacyStrings, n \in NewStyleValues}
   \cup {[replacement_model |-> x] : x \in NonStrings}
   \cup {[replacement_model |-> x, replacement_models |-> n] :
            x \in NonStrings, n \in NewStyleValues}

NextMigrate ==
   /\ built["self"] = <<>>
   /\ \E d \in MigrateDicts : FromDict("self", d)

SpecMigrate == Init /\ [][NextMigrate]_vars

(***************************************************************************)
(* What the properties speak of.                                           *)
(***************************************************************************)
Present(slot) == items[slot] # <<>>

\* The string the call that made slot was given for a str field; "" when
\* the argument or the key was left out.
Given(slot, field) ==
   LET call == built[slot][1]
   IN  IF call.op = "construct" THEN call.input[field]
       ELSE Get(call.input, field, PyStr(<<>>)).v

HashGiven(slot) == Given(slot, "content_hash") # <<>>

Pipe == <<"|">>

\* The first 16 hexadecimal characters of the SHA-256 of
\* provider|model_id|shutdown_date|announcement_date.
ExpectedHash(it) ==
   SubSeq(sha256_hexdigest(it.provider \o Pipe \o it.model_id \o Pipe
                           \o it.shutdown_date \o Pipe \o it.announcement_date),
          1, 16)

SameHashedFields(x, y) ==
   /\ x.provider = y.provider
   /\ x.model_id = y.model_id
   /\ x.shutdown_date = y.shutdown_date
   /\ x.announcement_date = y.announcement_date

LowerHex == {HexDigits[i] : i \in 1..16}

IsHash16(h) == Len(h) = 16 /\ \A i \in 1..Len(h) : h[i] \in LowerHex

(***************************************************************************)
(* Properties of Spec.                                                     *)
(***************************************************************************)
\* C1: an object made by the constructor or by from_dict with content_hash
\* empty or absent has as content_hash the first 16 hex characters of the
\* SHA-256 of provider|model_id|shutdown_date|announcement_date, in that
\* order; so two such objects that agree on those four fields have the same
\* content_hash, whatever their other fields and the times they were made.
\* The digest of the example call is the one hashlib gives for
\* "OpenAI|gpt-4-32k-0613|2025-01-01|2024-01-01".
C1_HashOfFourFields ==
   /\ \A s \in Slots :
         Present(s) /\ ~HashGiven(s) =>
            /\ items[s][1].content_hash = ExpectedHash(items[s][1])
            /\ items[s][1].provider = OpenAI =>
                  items[s][1].content_hash =
                     <<"7", "0", "1", "8", "3", "d", "d", "6",
                       "3", "8", "8", "c", "5", "6", "b", "4">>
   /\ Present("self") /\ Present("other")
      /\ ~HashGiven("self") /\ ~HashGiven("other")
      /\ SameHashedFields(items["self"][1], items["other"][1])
      => items["self"][1].content_hash = items["other"][1].content_hash

\* Two objects without a given hash that agree on the hashed fields and
\* differ in the others, the second made later than the first.
C1_Witness ==
   /\ Present("self") /\ Present("other")
   /\ ~HashGiven("self") /\ ~HashGiven("other")
   /\ SameHashedFields(items["self"][1], items["other"][1])
   /\ items["self"][1].model_name # items["other"][1].model_name
   /\ built["self"][1].now < built["other"][1].now
   /\ items["self"][1].content_hash = items["other"][1].content_hash

\* C2 as claimed: the content_hash of every object is exactly 16 lowercase
\* hexadecimal characters, whatever the call was given.
C2_AlwaysHash16 ==
   \A s \in Slots : Present(s) => IsHash16(items[s][1].content_hash)

\* C2 as amended: a content_hash that is computed (none was given) is
\* exactly 16 lowercase hexadecimal characters; a given one is kept as it is.
C2_ComputedHash16 ==
   \A s \in Slots :
      Present(s) =>
         IF HashGiven(s)
         THEN items[s][1].content_hash = Given(s, "content_hash")
         ELSE IsHash16(items[s][1].content_hash)

\* One object with a computed hash and one, made by from_dict, with the
\* hash its dict held.
C2_Witness ==
   /\ Present("self") /\ ~HashGiven("self")
   /\ IsHash16(items["self"][1].content_hash)
   /\ Present("other") /\ HashGiven("other")
   /\ built["other"][1].op = "from_dict"
   /\ items["other"][1].content_hash = GivenHash

\* C4: matches_previous returns true exactly when the two objects have the
\* same provider, model_id and content_hash; it is reflexive and symmetric;
\* and two objects built without a given hash that differ only in what is
\* not hashed are equivalent.
C4_EquivalenceOnThreeFields ==
   /\ result # <<>> =>
         /\ result[1] = (/\ items["self"][1].provider = items["other"][1].provider
                         /\ items["self"][1].model_id = items["other"][1].model_id
                         /\ items["self"][1].content_hash
                               = items["other"][1].content_hash)
         /\ result[1] = matches_previous(items["other"][1], items["self"][1])
         /\ ~HashGiven("self") /\ ~HashGiven("other")
            /\ SameHashedFields(items["self"][1], items["other"][1])
            => result[1]
   /\ \A s \in Slots : Present(s) => matches_previous(items[s][1], items[s][1])

\* matches_previous has returned true for two objects that differ in name,
\* url, context, replacement list and time stamp.
C4_Witness ==
   /\ result = <<TRUE>>
   /\ ~HashGiven("self") /\ ~HashGiven("other")
   /\ items["self"][1].model_name # items["other"][1].model_name
   /\ items["self"][1].url # items["other"][1].url
   /\ items["self"][1].deprecation_context # items["other"][1].deprecation_context
   /\ items["self"][1].replacement_models # items["other"][1].replacement_models
   /\ items["self"][1].scraped_at # items["other"][1].scraped_at

\* C5 as claimed: two objects that differ in a hashed field are never
\* equivalent.
C5_HashedFieldDiffers ==
   result # <<>> /\ ~SameHashedFields(items["self"][1], items["other"][1])
   => result[1] = FALSE

HasPipe(str) == \E i \in 1..Len(str) : str[i] = "|"

PipeFree(it) ==
   /\ ~HasPipe(it.provider)
   /\ ~HasPipe(it.model_id)
   /\ ~HasPipe(it.shutdown_date)
   /\ ~HasPipe(it.announcement_date)

\* C5 as amended: two objects that differ in provider or model_id are never
\* equivalent; two objects that differ in a date are not equivalent when
\* neither was given a hash and no hashed field holds the separator "|".
C5_ComputedHashDiffers ==
   result # <<>> =>
      /\ \/ items["self"][1].provider # items["other"][1].provider
         \/ items["self"][1].model_id # items["other"][1].model_id
         => result[1] = FALSE
      /\ /\ ~SameHashedFields(items["self"][1], items["other"][1])
         /\ ~HashGiven("self") /\ ~HashGiven("other")
         /\ PipeFree(items["self"][1]) /\ PipeFree(items["other"][1])
         => result[1] = FALSE

\* matches_previous has returned false for two objects with the same
\* provider and model_id, with computed hashes, that differ in a date only.
C5_Witness ==
   /\ result = <<FALSE>>
   /\ ~HashGiven("self") /\ ~HashGiven("other")
   /\ PipeFree(items["self"][1]) /\ PipeFree(items["other"][1])
   /\ items["self"][1].provider = items["other"][1].provider
   /\ items["self"][1].model_id = items["other"][1].model_id
   /\ items["self"][1].shutdown_date = items["other"][1].shutdown_date
   /\ items["self"][1].announcement_date # items["other"][1].announcement_date

(***************************************************************************)
(* Properties of SpecRoundTrip.                                            *)
(***************************************************************************)
\* C3: from_dict(to_dict(r)) equals r in all ten fields, for every r the
\* constructor makes (replacement_models None, [] or a list; hash and time
\* stamp given or not); scraped_at and content_hash are those of r and are
\* not computed again, even when the clock has advanced in between.
C3_RoundTrip ==
   Present("other") /\ data # <<>> /\ built["other"][1].input = data[1] =>
      /\ items["other"][1] = items["self"][1]
      /\ items["other"][1].scraped_at = items["self"][1].scraped_at
      /\ items["other"][1].content_hash = items["self"][1].content_hash

\* An object with an empty replacement list, made without hash and time
\* stamp, has been read back after the clock advanced.
C3_Witness ==
   /\ Present("other")
   /\ built["other"][1].input = data[1]
   /\ built["self"][1].now < built["other"][1].now
   /\ ~HashGiven("self")
   /\ Given("self", "scraped_at") = <<>>
   /\ items["self"][1].replacement_models = PyList(<<>>)
   /\ items["other"][1] = items["self"][1]

\* C9: the constructor sets scraped_at to the clock's reading at the call
\* exactly when no scraped_at is given, and keeps a given one as it is; and
\* nothing done later (the clock advancing, to_dict, from_dict of a dict,
\* matches_previous) changes the scraped_at of the object.
C9_ScrapedAtSetOnce ==
   \A s \in Slots :
      Present(s) /\ built[s][1].op = "construct" =>
         items[s][1].scraped_at =
            IF Given(s, "scraped_at") = <<>>
            THEN isoformat(built[s][1].now)
            ELSE Given(s, "scraped_at")

\* An object made without a time stamp still has the reading of the time it
\* was made, after the clock advanced and every other operation ran.
C9_Witness ==
   /\ Present("self") /\ Present("other")
   /\ Given("self", "scraped_at") = <<>>
   /\ built["self"][1].now < clock
   /\ data # <<>>
   /\ result # <<>>
   /\ items["self"][1].scraped_at = isoformat(built["self"][1].now)
   /\ items["self"][1].scraped_at # isoformat(clock)

(***************************************************************************)
(* Properties of SpecMigrate.                                              *)
(***************************************************************************)
Called(slot) == built[slot] # <<>>

Input(slot) == built[slot][1].input

PlainStrFields ==
   {"provider", "model_id", "model_name", "announcement_date",
    "shutdown_date", "deprecation_context", "url"}

\* C6 as claimed: from_dict never fails: for every dict, with any known
\* keys missing, with unknown keys, with a legacy value that is not a
\* string, it returns an object and raises nothing, and each str field whose
\* key is missing is the empty string.
C6_FromDictNeverFails ==
   /\ raised = ""
   /\ Called("self") =>
         /\ Present("self")
         /\ \A f \in PlainStrFields \ DOMAIN Input("self") :
               items["self"][1][f] = <<>>

\* The dict has a non-empty legacy string and no replacement list.
LegacyCase(d) ==
   /\ "replacement_model" \in DOMAIN d
   /\ d["replacement_model"].t = "str"
   /\ Len(d["replacement_model"].v) > 0
   /\ "replacement_models" \in DOMAIN d => d["replacement_models"] = PyNone

\* Where "or" occurs in v, what precedes the first and follows the last.
OrAt(v) == {i \in 1..(Len(v) - 1) : v[i] = "o" /\ v[i + 1] = "r"}

BeforeFirstOr(v) ==
   SubSeq(v, 1, (CHOOSE i \in OrAt(v) : \A j \in OrAt(v) : i <= j) - 1)

AfterLastOr(v) ==
   SubSeq(v, (CHOOSE i \in OrAt(v) : \A j \in OrAt(v) : j <= i) + 2, Len(v))

Segments(v) ==
   LET kept == SelectSeq(split(v, <<"o", "r">>), NonEmpty)
   IN  PyList([i \in 1..Len(kept) |-> PyStr(kept[i])])

Whitespace == {" ", "\t", "\n", "\r"}

NoneOf(str, chars) == \A i \in 1..Len(str) : str[i] \notin chars

\* The replacement list the migration is to give for the legacy string v,
\* when the characters of blanks are what may not stand before the first
\* and after the last "or".
Migrated(v, blanks) ==
   IF /\ OrAt(v) # {}
      /\ NoneOf(BeforeFirstOr(v), blanks)
      /\ NoneOf(AfterLastOr(v), blanks)
   THEN Segments(v)
   ELSE PyList(<<PyStr(v)>>)

\* C7 as claimed: a non-empty legacy string v is split on "or", the empty
\* segments dropped, when it contains "or" and neither what precedes the
\* first "or" nor what follows the last holds a whitespace character (space,
\* tab, newline, ...); otherwise it becomes the list [v].
C7_SplitUnlessWhitespace ==
   Present("self") /\ LegacyCase(Input("self")) =>
      items["self"][1].replacement_models
         = Migrated(Input("self")["replacement_model"].v, Whitespace)

\* C7 as amended: the same with the space character alone in the place of
\* whitespace: a tab or any other blank does not keep v from being split.
C7_SplitUnlessSpace ==
   Present("self") /\ LegacyCase(Input("self")) =>
      items["self"][1].replacement_models
         = Migrated(Input("self")["replacement_model"].v, {" "})

\* A legacy string with a tab before its "or" has been split in two.
C7_Witness ==
   /\ Present("self") /\ LegacyCase(Input("self"))
   /\ Input("self")["replacement_model"].v = <<"a", "\t", "o", "r">>
   /\ items["self"][1].replacement_models = PyList(<<PyStr(<<"a", "\t">>)>>)

\* C8: a replacement_models list in the dict, the empty list too, is the
\* result as it is, the legacy key ignored; without one (or with None) and
\* with the legacy key missing or "", the result is None.
C8_NewStyleFirst ==
   Present("self") =>
      LET d  == Input("self")
          rm == Get(d, "replacement_models", PyNone)
      IN  /\ rm # PyNone => items["self"][1].replacement_models = rm
          /\ /\ rm = PyNone
             /\ \/ "replacement_model" \notin DOMAIN d
                \/ d["replacement_model"] = PyStr(<<>>)
             => items["self"][1].replacement_models = PyNone

\* An empty replacement list beside a legacy string that would be split.
C8_Witness ==
   /\ Present("self")
   /\ "replacement_models" \in DOMAIN Input("self")
   /\ Input("self")["replacement_models"] = PyList(<<>>)
   /\ "replacement_model" \in DOMAIN Input("self")
   /\ Input("self")["replacement_model"] = PyStr(<<"a", "o", "r", "a">>)
   /\ items["self"][1].replacement_models = PyList(<<>>)

\* C10 as claimed: a non-empty legacy string never becomes None or the
\* empty list: the result is a non-empty list of non-empty strings, also for
\* "or" and "oror".
C10_NeverEmptyList ==
   Present("self") /\ LegacyCase(Input("self")) =>
      LET rm == items["self"][1].replacement_models
      IN  /\ rm.t = "list"
          /\ Len(rm.v) > 0
          /\ \A i \in 1..Len(rm.v) : rm.v[i].t = "str" /\ Len(rm.v[i].v) > 0

=============================================================================
